---- MODULE Spec2Model ----
(***************************************************************************)
(* Model of restock.py: the Action Processor restock_all_zero_to_one and   *)
(* the part of main that calls it and prints the summary.                  *)
(*                                                                         *)
(* The surface (the Seller Hub page driven through Selenium) is the        *)
(* environment.  It is a list of rows, each with a Restock button that is  *)
(* shown (displayed and enabled) or not and an "Available quantity" value; *)
(* clicking a button opens a detail view holding a draft of that value.    *)
(* Every surface operation may raise; which one raises is chosen freely.   *)
(***************************************************************************)
EXTENDS Integers, Sequences, FiniteSets, TLC

\* ------------------------------------------------------------- bounds
\* Largest number of rows on the surface at the start of a run.
MaxRows == 3
\* Largest value of the max_items argument.
MaxItemsArg == 3

\* ------------------------------------------------------------- strings
\* A string is modelled as a sequence of one-character strings.
\* get_attribute returns None when the attribute is absent; None is encoded
\* as a one-element sequence whose element is no character of any value.
NoneAttr == <<"None">>

Whitespace == {" "}

\* The raw "value" attributes a row's quantity field may hold.
RawValues == { <<"0">>, <<"5">>, <<>>, <<" ", "0", " ">>, NoneAttr }

RECURSIVE LStrip(_)
LStrip(s) == IF s # <<>> /\ Head(s) \in Whitespace THEN LStrip(Tail(s)) ELSE s

RECURSIVE RStrip(_)
RStrip(s) == IF s # <<>> /\ s[Len(s)] \in Whitespace
             THEN RStrip(SubSeq(s, 1, Len(s) - 1)) ELSE s

\* str.strip()
Strip(s) == RStrip(LStrip(s))

\* (x or "")
OrEmpty(raw) == IF raw = NoneAttr \/ raw = <<>> THEN <<>> ELSE raw

\* cur_val = (qty_input.get_attribute("value") or "").strip()
CurVal(raw) == Strip(OrEmpty(raw))

\* Faulty variant of IsSentinel: the empty value does not authorize mutation.
IsSentinelZeroOnly(v) == v = <<"0">>

\* not (cur_val not in ("0", ""))
IsSentinel(v) == v \in { <<"0">>, <<>> }

\* The value typed by set_input_value(driver, qty_input, "1").
TargetValue == <<"1">>

\* cur_val before the read step of an iteration has run.
Unread == <<"unread">>

\* ------------------------------------------------------------- surface
\* How the surface re-renders the list once a row has been processed:
\*   "every_attempt": the row leaves the list at the end of every iteration;
\*   "on_submit":     the row leaves the list when its new value is submitted;
\*   "never":         the row stays (a submitted row shows its new value).
Policies == {"every_attempt", "on_submit", "never"}

\* A hidden row's value is never read, so hidden rows all carry "0".
Rows == [val : RawValues, shown : {TRUE}] \cup [val : {<<"0">>}, shown : {FALSE}]

SeqsUpTo(S, n) == UNION { [1..k -> S] : k \in 0..n }

RemoveAt(s, i) == SubSeq(s, 1, i - 1) \o SubSeq(s, i + 1, Len(s))

VARIABLES
    max_items,   \* argument of restock_all_zero_to_one
    dry_run,     \* argument of restock_all_zero_to_one
    policy,      \* the surface's re-render policy
    surface,     \* the rows currently listed
    surface0,    \* the rows listed at the start of the run
    field,       \* draft value in the open detail view, "" when it is closed
    pc,          \* position of the run
    res,         \* RestockResult
    btn,         \* index of the row selected in this iteration, 0 when gone
    cur_val,     \* value read in this iteration
    calls,       \* surface calls issued in this iteration: click, set, submit, esc
    mark,        \* res and surface at the start of this iteration
    faultAt,     \* step of this iteration's try block that raised
    anyFault,    \* whether any surface operation has raised in this run
    exitBy,      \* how the while loop (or the function) was left
    confirm,     \* how the staleness wait of this iteration ended
    summary,     \* whether main has printed the summary
    stale,       \* whether the field control was replaced after this iteration's read
    page,        \* the column header of the list, as the surface renders it
    norm         \* arguments, locals and bookkeeping of the sort normalizer

vars == << max_items, dry_run, policy, surface, surface0, field, pc, res, btn,
           cur_val, calls, mark, faultAt, anyFault, exitBy, confirm,
           summary, stale, page, norm >>

sortVars == << page, norm >>

params == << max_items, dry_run, policy, surface0 >>

ZeroResult == [attempted |-> 0, updated |-> 0, skipped_nonzero |-> 0, failed |-> 0]
ZeroCalls == [click |-> 0, set |-> 0, submit |-> 0, esc |-> 0]

\* The sort normalizer's state while the processor runs.
IdlePage == [header |-> FALSE, ancestors |-> 0, sortAt |-> 0,
             cycle |-> <<>>, pos |-> 0, responsive |-> FALSE]

IdleNorm == [max_clicks |-> 0, container |-> "unset", aria_sort |-> "unset",
             i |-> 0, clicks |-> 0, fault |-> "none"]

Init ==
    /\ max_items \in -1..MaxItemsArg
    /\ dry_run \in BOOLEAN
    /\ policy \in Policies
    /\ surface \in SeqsUpTo(Rows, MaxRows)
    /\ surface0 = surface
    /\ field = <<>>
    /\ pc = "wait_body"
    /\ res = ZeroResult
    /\ btn = 0
    /\ cur_val = Unread
    /\ calls = ZeroCalls
    /\ mark = [res |-> ZeroResult, surface |-> surface]
    /\ faultAt = "none"
    /\ anyFault = FALSE
    /\ exitBy = "none"
    /\ confirm = "none"
    /\ summary = FALSE
    /\ stale = FALSE
    /\ page = IdlePage
    /\ norm = IdleNorm

\* ------------------------------------------------------------- helpers
\* Faulty variant of LoopGuard: off by one.
LoopGuardInclusive(a, m) == a <= m

\* while res.attempted < max_items
LoopGuard(a, m) == a < m

\* [b for b in buttons if b.is_displayed() and b.is_enabled()], as row indices
Buttons(s) == SelectSeq([i \in 1..Len(s) |-> i], LAMBDA i : s[i].shown)

\* Faulty variant of OnItemFault: the exception leaves the function.
OnItemFaultPropagates == "raised"

\* Where control goes when a step inside the try block raises.
OnItemFault == "except"

\* A step of the try block raises: control passes to the except clause.
Raise(step) ==
    /\ pc = step
    /\ pc' = OnItemFault
    /\ faultAt' = step
    /\ anyFault' = TRUE

\* The list as re-rendered when the iteration on row btn is over.
EndIteration(s) ==
    IF policy = "every_attempt" /\ btn # 0 THEN RemoveAt(s, btn) ELSE s

\* The list after the submit control of row btn's detail view was clicked.
Submitted(s) ==
    IF policy = "never" THEN [s EXCEPT ![btn].val = field] ELSE RemoveAt(s, btn)

Bump(r, k) == [r EXCEPT ![k] = @ + 1]

\* The loop is left: the iteration's locals and bookkeeping are gone.
LeaveLoop ==
    /\ cur_val' = Unread
    /\ calls' = ZeroCalls
    /\ mark' = [res |-> res, surface |-> surface]
    /\ faultAt' = "none"
    /\ confirm' = "none"
    /\ stale' = FALSE

\* ------------------------------------------------------------- line 148
WaitBody ==
    /\ pc = "wait_body"
    /\ pc' = "while"
    /\ UNCHANGED << sortVars, stale, params, surface, field, res, btn, cur_val, calls, mark,
                    faultAt, anyFault, exitBy, confirm, summary >>

\* wait.until raises TimeoutException: nothing catches it.
WaitBodyRaises ==
    /\ pc = "wait_body"
    /\ pc' = "raised"
    /\ exitBy' = "wait_body_raised"
    /\ anyFault' = TRUE
    /\ UNCHANGED << sortVars, stale, params, surface, field, res, btn, cur_val, calls, mark,
                    faultAt, confirm, summary >>

\* ------------------------------------------------------------- lines 150-164
\* The while condition is false: fall through to return res.
LoopExit ==
    /\ pc = "while"
    /\ ~LoopGuard(res.attempted, max_items)
    /\ pc' = "returned"
    /\ exitBy' = "bound"
    /\ LeaveLoop
    /\ UNCHANGED << sortVars, params, surface, field, res, btn, anyFault, summary >>

\* find_elements raises StaleElementReferenceException: buttons = [], break.
FindStale ==
    /\ pc = "while"
    /\ LoopGuard(res.attempted, max_items)
    /\ pc' = "returned"
    /\ exitBy' = "stale_query"
    /\ anyFault' = TRUE
    /\ LeaveLoop
    /\ UNCHANGED << sortVars, params, surface, field, res, btn, summary >>

\* find_elements raises any other exception: it leaves the function.
FindRaises ==
    /\ pc = "while"
    /\ LoopGuard(res.attempted, max_items)
    /\ pc' = "raised"
    /\ exitBy' = "find_raised"
    /\ anyFault' = TRUE
    /\ LeaveLoop
    /\ UNCHANGED << sortVars, params, surface, field, res, btn, summary >>

\* is_displayed or is_enabled of a found button raises, outside the try.
FilterRaises ==
    /\ pc = "while"
    /\ LoopGuard(res.attempted, max_items)
    /\ Len(surface) > 0
    /\ pc' = "raised"
    /\ exitBy' = "filter_raised"
    /\ anyFault' = TRUE
    /\ LeaveLoop
    /\ UNCHANGED << sortVars, params, surface, field, res, btn, summary >>

\* if not buttons: break
DiscoverEmpty ==
    /\ pc = "while"
    /\ LoopGuard(res.attempted, max_items)
    /\ Buttons(surface) = <<>>
    /\ pc' = "returned"
    /\ exitBy' = "empty"
    /\ LeaveLoop
    /\ UNCHANGED << sortVars, params, surface, field, res, btn, anyFault, summary >>

\* Faulty variant of Select: the last discovered button is taken.
SelectLast ==
    /\ pc = "while"
    /\ LoopGuard(res.attempted, max_items)
    /\ Buttons(surface) # <<>>
    /\ btn' = Buttons(surface)[Len(Buttons(surface))]
    /\ res' = Bump(res, "attempted")
    /\ mark' = [res |-> res, surface |-> surface]
    /\ cur_val' = Unread
    /\ calls' = ZeroCalls
    /\ faultAt' = "none"
    /\ confirm' = "none"
    /\ stale' = FALSE
    /\ pc' = "open"
    /\ UNCHANGED << sortVars, params, surface, field, anyFault, exitBy, summary >>

\* Faulty variant of Select: res.attempted += 1 is forgotten.
SelectNoIncrement ==
    /\ pc = "while"
    /\ LoopGuard(res.attempted, max_items)
    /\ Buttons(surface) # <<>>
    /\ btn' = Head(Buttons(surface))
    /\ mark' = [res |-> res, surface |-> surface]
    /\ cur_val' = Unread
    /\ calls' = ZeroCalls
    /\ faultAt' = "none"
    /\ confirm' = "none"
    /\ stale' = FALSE
    /\ pc' = "open"
    /\ UNCHANGED << sortVars, params, surface, field, res, anyFault, exitBy,
                    summary >>

\* btn = buttons[0]; res.attempted += 1
Select ==
    /\ pc = "while"
    /\ LoopGuard(res.attempted, max_items)
    /\ Buttons(surface) # <<>>
    /\ btn' = Head(Buttons(surface))
    /\ res' = Bump(res, "attempted")
    /\ mark' = [res |-> res, surface |-> surface]
    /\ cur_val' = Unread
    /\ calls' = ZeroCalls
    /\ faultAt' = "none"
    /\ confirm' = "none"
    /\ stale' = FALSE
    /\ pc' = "open"
    /\ UNCHANGED << sortVars, params, surface, field, anyFault, exitBy, summary >>

\* ------------------------------------------------------------- line 170
\* safe_click(driver, btn): el.click(), or js_click when that raises; the
\* detail view opens on the selected row's value either way.
Open ==
    /\ pc = "open"
    /\ \E how \in {"click", "js_click"} :
        /\ field' = surface[btn].val
        /\ calls' = Bump(calls, "click")
        /\ pc' = "read"
    /\ UNCHANGED << sortVars, stale, params, surface, res, btn, cur_val, mark, faultAt,
                    anyFault, exitBy, confirm, summary >>

\* scrollIntoView or js_click raises.
OpenRaises ==
    /\ Raise("open")
    /\ calls' = Bump(calls, "click")
    /\ UNCHANGED << sortVars, stale, params, surface, field, res, btn, cur_val, mark, exitBy,
                    confirm, summary >>

\* ------------------------------------------------------------- lines 172-173
Read ==
    /\ pc = "read"
    /\ cur_val' = CurVal(field)
    /\ pc' = "gate"
    /\ UNCHANGED << sortVars, stale, params, surface, field, res, btn, calls, mark, faultAt,
                    anyFault, exitBy, confirm, summary >>

\* The presence wait times out, or get_attribute raises.
ReadRaises ==
    /\ Raise("read")
    /\ UNCHANGED << sortVars, stale, params, surface, field, res, btn, cur_val, calls, mark,
                    exitBy, confirm, summary >>

\* ------------------------------------------------------------- lines 175-186
\* Faulty variants of AfterGate: without the idempotency gate, and without
\* the dry-run gate.
AfterGateNoSkip(v, dry) == IF dry THEN "dry_esc" ELSE "mutate"

AfterGateNoDryRun(v, dry) == IF ~IsSentinel(v) THEN "skip_esc" ELSE "mutate"

\* The branch taken after the read: the idempotency gate, then the dry-run gate.
AfterGate(v, dry) ==
    IF ~IsSentinel(v) THEN "skip_esc" ELSE IF dry THEN "dry_esc" ELSE "mutate"

\* if cur_val not in ("0", ""): res.skipped_nonzero += 1
GateSkip ==
    /\ pc = "gate"
    /\ AfterGate(cur_val, dry_run) = "skip_esc"
    /\ res' = Bump(res, "skipped_nonzero")
    /\ pc' = "skip_esc"
    /\ UNCHANGED << sortVars, stale, params, surface, field, btn, cur_val, calls, mark, faultAt,
                    anyFault, exitBy, confirm, summary >>

\* if dry_run:
GateDryRun ==
    /\ pc = "gate"
    /\ AfterGate(cur_val, dry_run) = "dry_esc"
    /\ pc' = "dry_esc"
    /\ UNCHANGED << sortVars, stale, params, surface, field, res, btn, cur_val, calls, mark,
                    faultAt, anyFault, exitBy, confirm, summary >>

GateMutate ==
    /\ pc = "gate"
    /\ AfterGate(cur_val, dry_run) = "mutate"
    /\ pc' = "mutate"
    /\ UNCHANGED << sortVars, stale, params, surface, field, res, btn, cur_val, calls, mark,
                    faultAt, anyFault, exitBy, confirm, summary >>

\* ActionChains(driver).send_keys(Keys.ESCAPE).perform(); continue
\* (line 177 after a skip, line 182 in a dry run)
Cancel(step) ==
    /\ pc = step
    /\ calls' = Bump(calls, "esc")
    /\ surface' = EndIteration(surface)
    /\ btn' = 0
    /\ field' = <<>>
    /\ pc' = "while"
    /\ UNCHANGED << sortVars, stale, params, res, cur_val, mark, faultAt, anyFault, exitBy,
                    confirm, summary >>

CancelRaises(step) ==
    /\ Raise(step)
    /\ calls' = Bump(calls, "esc")
    /\ UNCHANGED << sortVars, stale, params, surface, field, res, btn, cur_val, mark, exitBy,
                    confirm, summary >>

SkipEsc == Cancel("skip_esc")
SkipEscRaises == CancelRaises("skip_esc")
DryEsc == Cancel("dry_esc")
DryEscRaises == CancelRaises("dry_esc")

\* ------------------------------------------------------------- lines 186, 40-59
\* set_input_value(driver, qty_input, "1") runs to its end.
Mutate ==
    /\ pc = "mutate"
    /\ ~stale
    /\ calls' = Bump(calls, "set")
    /\ field' = TargetValue
    /\ pc' = "wait_submit"
    /\ UNCHANGED << sortVars, stale, params, surface, res, btn, cur_val, mark, faultAt,
                    anyFault, exitBy, confirm, summary >>

\* set_input_value raises: before the field is cleared (scrollIntoView,
\* js_click, Ctrl+A), after BACKSPACE, or after the value was typed (the
\* event-dispatch script).
MutateRaises ==
    /\ Raise("mutate")
    /\ ~stale
    /\ calls' = Bump(calls, "set")
    /\ field' \in {field, <<>>, TargetValue}
    /\ UNCHANGED << sortVars, stale, params, surface, res, btn, cur_val, mark, exitBy, confirm,
                    summary >>

\* The surface replaces the field control after the read (a re-render of
\* the detail view): the handle qty_input of line 172 is stale from now on.
Rerender ==
    /\ pc = "mutate"
    /\ ~stale
    /\ stale' = TRUE
    /\ UNCHANGED << sortVars, params, surface, field, pc, res, btn, cur_val,
                    calls, mark, faultAt, anyFault, exitBy, confirm, summary >>

\* set_input_value is handed the stale qty_input: its first statement
\* (line 41) raises StaleElementReferenceException.
MutateStale ==
    /\ Raise("mutate")
    /\ stale
    /\ calls' = Bump(calls, "set")
    /\ UNCHANGED << sortVars, stale, params, surface, field, res, btn, cur_val,
                    mark, exitBy, confirm, summary >>

\* ------------------------------------------------------------- lines 188-189
WaitSubmit ==
    /\ pc = "wait_submit"
    /\ pc' = "click_submit"
    /\ UNCHANGED << sortVars, stale, params, surface, field, res, btn, cur_val, calls, mark,
                    faultAt, anyFault, exitBy, confirm, summary >>

\* element_to_be_clickable times out.
WaitSubmitRaises ==
    /\ Raise("wait_submit")
    /\ UNCHANGED << sortVars, stale, params, surface, field, res, btn, cur_val, calls, mark,
                    exitBy, confirm, summary >>

\* safe_click(driver, submit_btn): the draft becomes the row's value.
ClickSubmit ==
    /\ pc = "click_submit"
    /\ calls' = Bump(calls, "submit")
    /\ surface' = Submitted(surface)
    /\ btn' = IF policy = "never" THEN btn ELSE 0
    /\ pc' = "staleness"
    /\ UNCHANGED << sortVars, stale, params, field, res, cur_val, mark, faultAt, anyFault,
                    exitBy, confirm, summary >>

ClickSubmitRaises ==
    /\ Raise("click_submit")
    /\ calls' = Bump(calls, "submit")
    /\ UNCHANGED << sortVars, stale, params, surface, field, res, btn, cur_val, mark, exitBy,
                    confirm, summary >>

\* ------------------------------------------------------------- lines 191-197
\* Faulty variant of ConfirmAndRecord: TimeoutException is not passed over.
ConfirmTimeoutFatal ==
    /\ pc = "staleness"
    /\ \/ /\ confirm' = "stale"
          /\ res' = Bump(res, "updated")
          /\ surface' = EndIteration(surface)
          /\ btn' = 0
          /\ field' = <<>>
          /\ pc' = "while"
          /\ UNCHANGED << faultAt, anyFault >>
       \/ /\ confirm' = "timeout"
          /\ pc' = "except"
          /\ faultAt' = "staleness"
          /\ anyFault' = TRUE
          /\ UNCHANGED << res, surface, btn, field >>
    /\ UNCHANGED << sortVars, stale, params, cur_val, calls, mark, exitBy,
                    summary >>

\* The staleness wait ends (the control went stale, or TimeoutException is
\* passed over); res.updated += 1.
ConfirmAndRecord ==
    /\ pc = "staleness"
    /\ confirm' \in {"stale", "timeout"}
    /\ res' = Bump(res, "updated")
    /\ surface' = EndIteration(surface)
    /\ btn' = 0
    /\ field' = <<>>
    /\ pc' = "while"
    /\ UNCHANGED << sortVars, stale, params, cur_val, calls, mark, faultAt, anyFault, exitBy,
                    summary >>

\* The staleness wait raises something other than TimeoutException.
ConfirmRaises ==
    /\ Raise("staleness")
    /\ UNCHANGED << sortVars, stale, params, surface, field, res, btn, cur_val, calls, mark,
                    exitBy, confirm, summary >>

\* ------------------------------------------------------------- lines 199-207
\* Faulty variant of Handler: no cancel signal is sent.
HandlerNoCancel ==
    /\ pc = "except"
    /\ res' = Bump(res, "failed")
    /\ surface' = EndIteration(surface)
    /\ btn' = 0
    /\ field' = <<>>
    /\ pc' = "while"
    /\ UNCHANGED << sortVars, stale, params, cur_val, calls, mark, faultAt, anyFault, exitBy,
                    confirm, summary >>

\* except Exception: res.failed += 1, then ESC inside its own try; whether
\* that ESC raises or not, the loop goes on.
Handler ==
    /\ pc = "except"
    /\ res' = Bump(res, "failed")
    /\ calls' = Bump(calls, "esc")
    /\ \E esc \in {"sent", "raised"} : TRUE
    /\ surface' = EndIteration(surface)
    /\ btn' = 0
    /\ field' = <<>>
    /\ pc' = "while"
    /\ UNCHANGED << sortVars, stale, params, cur_val, mark, faultAt, anyFault, exitBy, confirm,
                    summary >>

\* ------------------------------------------------------------- main, lines 322-337
\* print("\nSummary") and the four counts.
PrintSummary ==
    /\ pc = "returned"
    /\ summary' = TRUE
    /\ pc' = "printed"
    /\ UNCHANGED << sortVars, stale, params, surface, field, res, btn, cur_val, calls, mark,
                    faultAt, anyFault, exitBy, confirm >>

\* finally: driver.quit(), after the summary or while the exception unwinds.
Quit ==
    /\ pc \in {"printed", "raised"}
    /\ pc' = "quit"
    /\ UNCHANGED << sortVars, stale, params, surface, field, res, btn, cur_val, calls, mark,
                    faultAt, anyFault, exitBy, confirm, summary >>

Next ==
    \/ WaitBody \/ WaitBodyRaises
    \/ LoopExit \/ FindStale \/ FindRaises \/ FilterRaises
    \/ DiscoverEmpty \/ Select
    \/ Open \/ OpenRaises
    \/ Read \/ ReadRaises
    \/ GateSkip \/ GateDryRun \/ GateMutate
    \/ SkipEsc \/ SkipEscRaises \/ DryEsc \/ DryEscRaises
    \/ Mutate \/ MutateRaises \/ Rerender \/ MutateStale
    \/ WaitSubmit \/ WaitSubmitRaises
    \/ ClickSubmit \/ ClickSubmitRaises
    \/ ConfirmAndRecord \/ ConfirmRaises
    \/ Handler
    \/ PrintSummary \/ Quit

Spec == Init /\ [][Next]_vars

\* ============================================================= properties
\* Steps of the try block (lines 166-197).
TrySteps == {"open", "read", "gate", "skip_esc", "dry_esc", "mutate",
             "wait_submit", "click_submit", "staleness"}

\* The function has returned its RestockResult.
Returned == pc \in {"returned", "printed"} \/ (pc = "quit" /\ summary)

Tally(r) == r.updated + r.skipped_nonzero + r.failed

\* The shown rows of the surface at the start of the run, in discovery order.
Shown0 == { i \in 1..Len(surface0) : surface0[i].shown }

\* The raw values that read "0" or empty once trimmed, listed one by one.
ReadsZeroOrEmpty == { <<"0">>, <<>>, <<" ", "0", " ">>, NoneAttr }

\* C1: for every completed run, the returned report satisfies
\* attempted = updated + skipped_nonzero + failed.
C1_TallyBalanced == Returned => res.attempted = Tally(res)

\* C2: whenever the value read in an iteration, trimmed, is neither "0" nor
\* empty, the iteration records SkippedNonSentinel, sends the cancel signal
\* and issues neither a set-value call nor a submit click, so the row keeps
\* its value; this holds on every attempt of the row.
C2_NonSentinelUntouched ==
    (cur_val # Unread /\ cur_val \notin { <<"0">>, <<>> }) =>
        /\ pc \in {"gate", "skip_esc", "except", "while"}
        /\ calls.set = 0 /\ calls.submit = 0
        /\ res.updated = mark.res.updated
        /\ pc # "gate" => res.skipped_nonzero = mark.res.skipped_nonzero + 1
        /\ pc = "while" => calls.esc >= 1
        /\ pc # "while" => surface = mark.surface /\ field = surface[btn].val
        /\ policy # "every_attempt" => surface = mark.surface

\* A row reading "5" that stays on the surface has been skipped twice.
C2_Witness ==
    /\ pc = "while" /\ cur_val = <<"5">> /\ policy = "never"
    /\ res.attempted >= 2 /\ res.skipped_nonzero = res.attempted
    /\ surface = surface0

\* C3: in a dry run updated is 0 in every state and neither set_input_value
\* nor the submit click is ever issued.
C3_DryRunNeverMutates ==
    dry_run =>
        /\ res.updated = 0
        /\ calls.set = 0 /\ calls.submit = 0
        /\ pc \notin {"mutate", "wait_submit", "click_submit", "staleness"}
        /\ pc \in TrySteps \cup {"except", "while"} => surface = mark.surface
                \/ policy = "every_attempt"

\* A dry run has previewed a row whose value authorizes mutation.
C3_Witness ==
    /\ dry_run /\ pc = "while" /\ IsSentinel(cur_val) /\ faultAt = "none"
    /\ calls.esc = 1 /\ res.attempted >= 1

\* C4: an exception raised by a step of the try block is caught in that
\* iteration: control passes to the except clause, which adds 1 to failed,
\* sends one cancel signal (whose own fault is swallowed) and returns to the
\* loop head; the function is left by an exception only outside an iteration.
C4_FaultIsolated ==
    /\ [][(pc \in TrySteps /\ faultAt' # faultAt /\ faultAt' # "none")
            => pc' = "except"]_vars
    /\ [][pc = "except" =>
            /\ pc' = "while"
            /\ res' = [res EXCEPT !.failed = @ + 1]
            /\ calls'.esc = calls.esc + 1]_vars
    /\ [](pc = "raised" =>
            exitBy \in {"wait_body_raised", "find_raised", "filter_raised"})

\* After an iteration that failed, a later row was updated.
C4_Witness ==
    /\ pc = "while" /\ faultAt = "none" /\ confirm # "none"
    /\ res.failed >= 1 /\ res.updated >= 1

\* C5: a discovery that fails on a transiently inconsistent surface (the
\* query or the is_displayed/is_enabled check raises) counts as "no items
\* found": no exception reaches the caller.
C5_DiscoveryFaultIsEmpty ==
    exitBy \in {"stale_query", "filter_raised"} => pc # "raised"

\* C6: whatever faults occur, the function returns its report and main
\* prints the summary before it quits.
C6_TallyAlwaysPrinted == pc = "quit" => summary

\* C7: for max_items >= 0, attempted <= max_items in every state, and a row
\* is opened only for an attempt selected while attempted < max_items, once.
C7_BoundRespected ==
    /\ max_items >= 0 => res.attempted <= max_items
    /\ max_items < 0 => res.attempted = 0
    /\ pc \in TrySteps => /\ mark.res.attempted < max_items
                          /\ res.attempted = mark.res.attempted + 1
    /\ calls.click <= 1
    /\ calls.click = 1 => res.attempted = mark.res.attempted + 1

\* A surface that yields a row on every pass: the run stops at the bound.
C7_Witness ==
    /\ pc = "returned" /\ exitBy = "bound" /\ policy = "never"
    /\ max_items = MaxItemsArg /\ res.attempted = max_items
    /\ Buttons(surface) # <<>>

\* C8: a fault-free, non-dry run over a surface that removes each row once
\* processed and shows N <= max_items rows reports attempted = N, updated =
\* the rows reading "0" or empty, skipped_nonzero = the others, failed = 0.
C8_CleanRunCounts ==
    (/\ Returned /\ ~anyFault /\ ~dry_run /\ policy = "every_attempt"
     /\ Cardinality(Shown0) <= max_items) =>
        res = [attempted |-> Cardinality(Shown0),
               updated |-> Cardinality({ i \in Shown0 :
                               surface0[i].val \in ReadsZeroOrEmpty }),
               skipped_nonzero |-> Cardinality({ i \in Shown0 :
                               surface0[i].val \notin ReadsZeroOrEmpty }),
               failed |-> 0]

\* Rows "0", "5", "": attempted = 3, updated = 2, skipped = 1, failed = 0.
C8_Witness ==
    /\ pc = "returned" /\ ~anyFault /\ ~dry_run /\ policy = "every_attempt"
    /\ surface0 = << [val |-> <<"0">>, shown |-> TRUE],
                     [val |-> <<"5">>, shown |-> TRUE],
                     [val |-> <<>>, shown |-> TRUE] >>
    /\ max_items = 3
    /\ res = [attempted |-> 3, updated |-> 2, skipped_nonzero |-> 1, failed |-> 0]

\* C9: an empty first discovery returns at once with all counts 0 and no
\* call issued on the surface; and the loop ends with attempted < max_items
\* only on an empty discovery.  (A query that fails for another reason than
\* staleness, exitBy = "find_raised", is left aside: the browser is gone.)
C9_EmptyDiscoveryOnlyEarlyExit ==
    /\ (exitBy = "empty" /\ res.attempted = 0) =>
            Returned /\ res = ZeroResult /\ calls = ZeroCalls
    /\ (/\ exitBy \notin {"none", "wait_body_raised", "find_raised"}
        /\ res.attempted < max_items)
            => exitBy \in {"empty", "stale_query"}

\* C10: when the mutate step raises, the iteration records Failed and not
\* Updated, and exactly one cancel signal is issued in it.
C10_MutateFaultFails ==
    faultAt = "mutate" =>
        /\ pc \in {"except", "while"}
        /\ calls.set = 1 /\ calls.submit = 0
        /\ res.updated = mark.res.updated
        /\ res.skipped_nonzero = mark.res.skipped_nonzero
        /\ pc = "except" => calls.esc = 0 /\ res.failed = mark.res.failed
        /\ pc = "while" => calls.esc = 1 /\ res.failed = mark.res.failed + 1
        /\ (pc = "while" /\ res.attempted = 1) =>
                res.failed = 1 /\ res.updated = 0

\* One row, and its mutate step raised: attempted = 1, failed = 1.
C10_Witness ==
    /\ pc = "while" /\ faultAt = "mutate" /\ Cardinality(Shown0) = 1
    /\ res = [attempted |-> 1, updated |-> 0, skipped_nonzero |-> 0, failed |-> 1]
    /\ calls.esc = 1

\* C11: when the staleness wait after the submit click times out, the
\* iteration still records Updated and not Failed, no cancel signal is sent
\* and the loop goes on.
C11_ConfirmTimeoutNonFatal ==
    confirm = "timeout" =>
        /\ pc = "while"
        /\ faultAt = "none"
        /\ calls.submit = 1 /\ calls.esc = 0
        /\ res.updated = mark.res.updated + 1
        /\ res.failed = mark.res.failed
        /\ res.attempted = 1 => res.updated = 1

\* One row reading "0", submitted, and the submit control never went stale.
C11_Witness ==
    /\ confirm = "timeout" /\ pc = "while"
    /\ surface0 = << [val |-> <<"0">>, shown |-> TRUE] >>
    /\ res = [attempted |-> 1, updated |-> 1, skipped_nonzero |-> 0, failed |-> 0]

\* C15: when the surface replaces the field control between the read and
\* the mutate step, the mutate step does not fail on it: the value is set
\* on the current control and the iteration records Updated.
C15_MutateReResolves ==
    (stale /\ pc # "mutate") =>
        /\ faultAt # "mutate"
        /\ (pc = "while" /\ faultAt = "none") =>
                res.updated = mark.res.updated + 1

\* C16: attempted changes only in the step that selects position 0 of a
\* fresh, non-empty discovery, by exactly 1, before any call on the selected
\* row; a discovery that finds nothing leaves it as it is.
C16_AttemptedOncePerIteration ==
    /\ [][res'.attempted # res.attempted =>
            /\ pc = "while" /\ pc' = "open"
            /\ Buttons(surface) # <<>>
            /\ btn' = Buttons(surface)[1]
            /\ res'.attempted = res.attempted + 1
            /\ calls' = ZeroCalls]_vars
    /\ [][(pc = "while" /\ pc' = "open") =>
            res'.attempted = res.attempted + 1]_vars
    /\ [][(pc = "while" /\ pc' # "open") =>
            res'.attempted = res.attempted]_vars
    /\ [](pc \in TrySteps \cup {"except"} =>
            res.attempted = mark.res.attempted + 1)
    /\ [](calls # ZeroCalls => res.attempted = mark.res.attempted + 1)

\* The second shown row of the list was never selected while the first one
\* stayed: two attempts, both on position 0.
C16_Witness ==
    /\ pc = "open" /\ res.attempted = 2 /\ calls = ZeroCalls
    /\ Len(Buttons(surface)) >= 2 /\ btn = Buttons(surface)[1]

\* The largest number of iterations still possible.
Remaining == (IF max_items > 0 THEN max_items ELSE 0) - res.attempted

\* Position inside an iteration, counted down to the loop head.
Rank ==
    CASE pc = "open" -> 12
      [] pc = "read" -> 11
      [] pc = "gate" -> 10
      [] pc \in {"skip_esc", "dry_esc"} -> 9
      [] pc = "mutate" -> IF stale THEN 7 ELSE 8
      [] pc = "wait_submit" -> 6
      [] pc = "click_submit" -> 5
      [] pc = "staleness" -> 4
      [] pc = "except" -> 3
      [] pc = "while" -> 2
      [] OTHER -> 0

\* A number every step of the run makes smaller.
Measure ==
    CASE pc = "quit" -> 0
      [] pc \in {"printed", "raised"} -> 1
      [] pc = "returned" -> 2
      [] pc = "wait_body" -> 3 + 20 * (Remaining + 1)
      [] OTHER -> 3 + 20 * Remaining + Rank

\* C17: the loop always terminates: every step of the run lowers a
\* non-negative measure made of the iterations left (max_items - attempted)
\* and the position inside the iteration, so no run goes on forever and the
\* loop body is entered at most max_items times.
C17_LoopTerminates ==
    /\ [][Measure' < Measure]_vars
    /\ [](Measure >= 0 /\ Remaining >= 0)

\* A run that used all its attempts, some of them failed, has ended.
C17_Witness ==
    /\ pc = "quit" /\ summary /\ max_items = MaxItemsArg
    /\ res.attempted = max_items /\ res.failed >= 1

\* No row has left the list since the start of the run.
NothingRemoved == Len(surface) = Len(surface0)

\* C18 (as stated): while the first discovered row is not removed, every
\* attempt selects it, and the run ends only when attempted = max_items.
C18_OnlyBoundEndsRun ==
    /\ (NothingRemoved /\ btn # 0) => btn = Head(Buttons(surface0))
    /\ (NothingRemoved /\ res.attempted >= 1 /\ pc = "returned") =>
            res.attempted = max_items

\* C18 (amended): while the first discovered row is not removed, every
\* attempt selects it; the run ends when attempted = max_items, or earlier
\* when a discovery fails: a stale query counts as an empty discovery and
\* ends the loop, any other exception of discovery leaves the function.
C18_SameRowUntilBoundOrFailedDiscovery ==
    /\ (NothingRemoved /\ btn # 0) => btn = Head(Buttons(surface0))
    /\ (NothingRemoved /\ res.attempted >= 1 /\ pc = "returned") =>
            /\ exitBy \in {"bound", "stale_query"}
            /\ exitBy = "bound" => res.attempted = max_items
    /\ (NothingRemoved /\ res.attempted >= 1 /\ pc = "raised") =>
            exitBy \in {"find_raised", "filter_raised"}

\* Two shown rows, the first one skipped and failed on but never removed:
\* all max_items attempts went to it.
C18_Witness ==
    /\ pc = "returned" /\ exitBy = "bound" /\ NothingRemoved
    /\ Len(Buttons(surface0)) >= 2
    /\ max_items = MaxItemsArg /\ res.attempted = max_items
    /\ res.skipped_nonzero >= 1 /\ res.failed >= 1

\* ============================================================= sort normalizer
\* click_available_qty_header_until_ascending (lines 91-133), which main
\* runs once before the processor.  The header span has page.ancestors
\* ancestors; the one at level page.sortAt (0: none) carries aria-sort, whose
\* value is page.cycle[page.pos]; a click on the header moves pos one place
\* round the cycle when the column is responsive and changes nothing when
\* it is not.

\* Largest number of ancestors of the header span.
MaxAncestors == 7
\* Largest value of the max_clicks argument.
MaxClicksArg == 5

\* for _ in range(6)
SortSearchDepth == 6
\* for _ in range(2)
BlindToggles == 2
\* max_clicks=4
DefaultMaxClicks == 4

\* The orders in which a column steps through its aria-sort values.
Cycles == { << "ascending", "descending" >>,
            << "none", "ascending", "descending" >>,
            << "none", "descending", "ascending" >>,
            << "none", "descending", "other", "ascending" >>,
            << "descending", "other" >>,
            << "ascending", "descending", "none", "other", "descending", "none" >> }

Range(s) == { s[k] : k \in 1..Len(s) }

Min(a, b) == IF a < b THEN a ELSE b

\* sort_container.get_attribute("aria-sort")
Aria(pg) == pg.cycle[pg.pos]

\* The header after a click on it.
Toggled(pg) ==
    IF pg.responsive THEN [pg EXCEPT !.pos = (pg.pos % Len(pg.cycle)) + 1] ELSE pg

\* find_sort_container(): the ancestor found, None after six levels without
\* aria-sort, or an exception (no header span; ".." taken of the root).
FindSortContainer(pg) ==
    IF ~pg.header THEN "raises"
    ELSE IF pg.sortAt \in 1..Min(SortSearchDepth, pg.ancestors) THEN "found"
    ELSE IF pg.ancestors < SortSearchDepth THEN "raises"
    ELSE "none"

\* Faulty variant of IsDesired: the wrong direction ends the protocol.
IsDesiredDescending(d) == d = "descending"

\* aria_sort == "ascending"
IsDesired(d) == d = "ascending"

\* Headers whose sort direction cannot be read all look alike.
Pages ==
    { pg \in [header : BOOLEAN, ancestors : 1..MaxAncestors,
              sortAt : 0..MaxAncestors, cycle : Cycles, pos : 1..6,
              responsive : BOOLEAN] :
        /\ pg.sortAt <= pg.ancestors
        /\ pg.pos <= Len(pg.cycle)
        /\ FindSortContainer(pg) # "found" =>
                /\ pg.cycle = << "ascending", "descending" >>
                /\ pg.pos = 1 /\ ~pg.responsive
        /\ ~pg.header => pg.ancestors = 1 /\ pg.sortAt = 0 }

procVars == << max_items, dry_run, policy, surface, surface0, field, res, btn,
               cur_val, calls, mark, faultAt, anyFault, exitBy, confirm,
               summary, stale >>

SortInit ==
    /\ page \in Pages
    /\ norm \in [max_clicks : 0..MaxClicksArg, container : {"unset"},
                 aria_sort : {"unset"}, i : {0}, clicks : {0}, fault : {"none"}]
    /\ pc = "sort_wait"
    /\ max_items = 0 /\ dry_run = FALSE /\ policy = "never"
    /\ surface = <<>> /\ surface0 = <<>> /\ field = <<>>
    /\ res = ZeroResult /\ btn = 0 /\ cur_val = Unread /\ calls = ZeroCalls
    /\ mark = [res |-> ZeroResult, surface |-> <<>>]
    /\ faultAt = "none" /\ anyFault = FALSE /\ exitBy = "none"
    /\ confirm = "none" /\ summary = FALSE /\ stale = FALSE

\* An exception leaves the normalizer: nothing in it or in main catches it.
SortRaise(step) ==
    /\ pc' = "sort_raised"
    /\ norm' = [norm EXCEPT !.fault = step]

\* ------------------------------------------------------------- line 93
SortWaitHeader ==
    /\ pc = "sort_wait"
    /\ page.header
    /\ pc' = "sort_find"
    /\ UNCHANGED << procVars, page, norm >>

\* The header is not there: wait.until raises TimeoutException.
SortWaitHeaderTimeout ==
    /\ pc = "sort_wait"
    /\ ~page.header
    /\ SortRaise("header_absent")
    /\ UNCHANGED << procVars, page >>

\* ------------------------------------------------------------- lines 95-104
SortFindFound ==
    /\ pc = "sort_find"
    /\ FindSortContainer(page) = "found"
    /\ norm' = [norm EXCEPT !.container = "found"]
    /\ pc' = "sort_loop"
    /\ UNCHANGED << procVars, page >>

SortFindNone ==
    /\ pc = "sort_find"
    /\ FindSortContainer(page) = "none"
    /\ norm' = [norm EXCEPT !.container = "none"]
    /\ pc' = "sort_blind"
    /\ UNCHANGED << procVars, page >>

\* find_element or get_attribute raises (always so when the walk leaves the
\* document; at any time when the header is re-rendered under it).
SortFindRaises ==
    /\ pc = "sort_find"
    /\ SortRaise("find")
    /\ UNCHANGED << procVars, page >>

\* ------------------------------------------------------------- lines 109-127
\* range(max_clicks) is exhausted: return.
SortLoopExit ==
    /\ pc = "sort_loop"
    /\ ~(norm.i < norm.max_clicks)
    /\ pc' = "sort_returned"
    /\ UNCHANGED << procVars, page, norm >>

\* aria_sort = ...; if aria_sort == "ascending": return
SortReadDesired ==
    /\ pc = "sort_loop"
    /\ norm.i < norm.max_clicks
    /\ IsDesired(Aria(page))
    /\ norm' = [norm EXCEPT !.aria_sort = Aria(page)]
    /\ pc' = "sort_returned"
    /\ UNCHANGED << procVars, page >>

SortReadOther ==
    /\ pc = "sort_loop"
    /\ norm.i < norm.max_clicks
    /\ ~IsDesired(Aria(page))
    /\ norm' = [norm EXCEPT !.aria_sort = Aria(page)]
    /\ pc' = "sort_click"
    /\ UNCHANGED << procVars, page >>

SortReadRaises ==
    /\ pc = "sort_loop"
    /\ norm.i < norm.max_clicks
    /\ SortRaise("read")
    /\ UNCHANGED << procVars, page >>

\* safe_click(driver, sort_container)
SortClick ==
    /\ pc = "sort_click"
    /\ page' = Toggled(page)
    /\ norm' = [norm EXCEPT !.clicks = @ + 1]
    /\ pc' = "sort_wait_change"
    /\ UNCHANGED procVars

SortClickRaises ==
    /\ pc = "sort_click"
    /\ pc' = "sort_raised"
    /\ norm' = [norm EXCEPT !.clicks = @ + 1, !.fault = "click"]
    /\ UNCHANGED << procVars, page >>

\* wait.until(aria-sort != aria_sort) sees the change.
SortWaitChanged ==
    /\ pc = "sort_wait_change"
    /\ Aria(page) # norm.aria_sort
    /\ pc' = "sort_refind"
    /\ UNCHANGED << procVars, page, norm >>

\* Faulty variant of SortWaitTimeout: TimeoutException is not passed over.
SortWaitTimeoutFatal ==
    /\ pc = "sort_wait_change"
    /\ Aria(page) = norm.aria_sort
    /\ SortRaise("wait_timeout")
    /\ UNCHANGED << procVars, page >>

\* The direction never changes: except TimeoutException: pass
SortWaitTimeout ==
    /\ pc = "sort_wait_change"
    /\ Aria(page) = norm.aria_sort
    /\ pc' = "sort_refind"
    /\ UNCHANGED << procVars, page, norm >>

\* The polled lambda raises something WebDriverWait does not ignore.
SortWaitRaises ==
    /\ pc = "sort_wait_change"
    /\ SortRaise("wait")
    /\ UNCHANGED << procVars, page >>

\* sort_container = find_sort_container() or sort_container
SortRefind ==
    /\ pc = "sort_refind"
    /\ FindSortContainer(page) \in {"found", "none"}
    /\ norm' = [norm EXCEPT !.i = @ + 1]
    /\ pc' = "sort_loop"
    /\ UNCHANGED << procVars, page >>

SortRefindRaises ==
    /\ pc = "sort_refind"
    /\ SortRaise("refind")
    /\ UNCHANGED << procVars, page >>

\* ------------------------------------------------------------- lines 129-133
\* safe_click(driver, driver.find_element(...)), twice.
SortBlindClick ==
    /\ pc = "sort_blind"
    /\ norm.i < BlindToggles
    /\ page' = Toggled(page)
    /\ norm' = [norm EXCEPT !.i = @ + 1, !.clicks = @ + 1]
    /\ pc' = "sort_blind"
    /\ UNCHANGED procVars

\* find_element or safe_click raises.
SortBlindClickRaises ==
    /\ pc = "sort_blind"
    /\ norm.i < BlindToggles
    /\ pc' = "sort_raised"
    /\ norm' = [norm EXCEPT !.clicks = @ + 1, !.fault = "blind"]
    /\ UNCHANGED << procVars, page >>

SortBlindDone ==
    /\ pc = "sort_blind"
    /\ ~(norm.i < BlindToggles)
    /\ pc' = "sort_returned"
    /\ UNCHANGED << procVars, page, norm >>

SortNext ==
    \/ SortWaitHeader \/ SortWaitHeaderTimeout
    \/ SortFindFound \/ SortFindNone \/ SortFindRaises
    \/ SortLoopExit \/ SortReadDesired \/ SortReadOther \/ SortReadRaises
    \/ SortClick \/ SortClickRaises
    \/ SortWaitChanged \/ SortWaitTimeout \/ SortWaitRaises
    \/ SortRefind \/ SortRefindRaises
    \/ SortBlindClick \/ SortBlindClickRaises \/ SortBlindDone

SpecSort == SortInit /\ [][SortNext]_vars

\* ------------------------------------------------------------- properties
\* C12: the normalizer never throws: whatever the header does, it returns.
C12_NormalizerNeverThrows == pc # "sort_raised"

\* C13: when no ancestor within 6 levels carries a sort direction, the
\* normalizer issues at most 2 blind toggles and then returns without
\* raising, whatever the surface does.
C13_BlindTogglesThenReturn ==
    norm.container = "none" =>
        /\ norm.clicks <= BlindToggles
        /\ pc \in {"sort_blind", "sort_returned"}
        /\ pc = "sort_returned" => norm.clicks = BlindToggles

\* C14: with a sort-direction element found, at most max_clicks toggles are
\* issued; a read of "ascending" returns at once with no further toggle
\* (none at all when the column is ascending on entry); a direction that
\* does not change within the wait is passed over, and when max_clicks is
\* used up the normalizer returns with the direction as it is.
C14_BoundedToggles ==
    /\ [](norm.container = "found" =>
            /\ norm.clicks <= norm.max_clicks
            /\ norm.i <= norm.max_clicks
            /\ norm.clicks \in {norm.i, norm.i + 1})
    /\ [](norm.aria_sort = "ascending" =>
            pc = "sort_returned" /\ norm.clicks = norm.i)
    /\ [][pc = "sort_returned" => pc' = "sort_returned"]_vars
    /\ [][(pc = "sort_wait_change" /\ Aria(page) = norm.aria_sort
            /\ norm'.fault # "wait") => pc' = "sort_refind"]_vars
    /\ [][(pc = "sort_loop" /\ pc' = "sort_returned"
            /\ norm'.aria_sort # "ascending") =>
                (norm.i = norm.max_clicks /\ UNCHANGED << page, norm >>)]_vars

\* A column that never reacts: four toggles, four waits timed out, and the
\* normalizer has returned with the direction still descending.
C14_Witness ==
    /\ pc = "sort_returned" /\ ~page.responsive
    /\ norm.container = "found" /\ norm.max_clicks = DefaultMaxClicks
    /\ norm.clicks = DefaultMaxClicks /\ Aria(page) = "descending"

\* C19: on a responsive column whose directions form a cycle of length at
\* most 4 that contains "ascending", the normalizer (max_clicks at least the
\* default) returns with the direction "ascending" from any start, having
\* read it, and without a toggle after that read.
C19_ReachesAscending ==
    (/\ norm.container = "found" /\ page.responsive
     /\ Len(page.cycle) <= 4 /\ "ascending" \in Range(page.cycle)
     /\ norm.max_clicks >= DefaultMaxClicks) =>
        /\ pc = "sort_returned" =>
                /\ Aria(page) = "ascending"
                /\ norm.aria_sort = "ascending"
        /\ norm.aria_sort = "ascending" =>
                /\ pc = "sort_returned"
                /\ Aria(page) = "ascending"
        /\ norm.clicks < Len(page.cycle)

\* From "none", three toggles round none, descending, other, ascending.
C19_Witness ==
    /\ pc = "sort_returned" /\ page.responsive /\ norm.container = "found"
    /\ page.cycle = << "none", "descending", "other", "ascending" >>
    /\ norm.max_clicks = DefaultMaxClicks
    /\ norm.clicks = 3 /\ norm.aria_sort = "ascending"
====
